---- MODULE Spec2Model ----
(***************************************************************************)
(* Model of the purchase-order extraction pipeline of app/ocr_service.py:  *)
(* extract_po_data (classify, dispatch to an extractor, validate and       *)
(* clean) and analyze_extraction_quality.                                  *)
(*                                                                         *)
(* Strings are TLA+ strings (Len, SubSeq and \o act on them character by   *)
(* character).  Floats that the code rounds to two decimals are kept as    *)
(* integers in hundredths; ratios are kept as numerator and denominator,   *)
(* so that every comparison and rounding is exact.                         *)
(***************************************************************************)
EXTENDS Integers, Sequences, FiniteSets, TLC

VARIABLES
    pc,             \* position of the modelled call
    verdict,        \* (po_format, confidence) returned by identify_po_format
    called,         \* the extractor that extract_po_data called
    raw,            \* the record as the extractor (or the caller) handed it over
    result,         \* the record, mutated in place by validate_and_clean_result
    total_fields,   \* analyze_extraction_quality: total_fields
    filled_fields,  \* analyze_extraction_quality: filled_fields
    quality,        \* the quality_assessment that analyze_extraction_quality returns
    ocr_text,       \* extract_po_data, get_extraction_stats: ocr_text
    steps,          \* the calls extract_po_data has made, in their order
    stats,          \* the stats that get_extraction_stats returns
    classifier,     \* identify_po_format, as far as it has been asked: text -> verdict
    extractors,     \* the extractors, as far as asked: (extractor, text) -> record
    store,          \* the OCRResult table: ocr_id -> row
    calls,          \* the calls of extract_po_data in progress, each with its locals
    returns,        \* what the finished calls of extract_po_data returned
    job,            \* the background task process_ocr_with_enhanced_extraction
    reg,            \* the request that register_po is handling
    tables,         \* the committed rows of PurchaseOrder, OrderItem and Input
    answer,         \* the last answer of the GET routes of an OCR job
    upload,         \* the request that upload_file is handling
    tasks           \* the background tasks scheduled, by ocr_id

\* the variables of one call of extract_po_data and of what follows it
pipeVars ==
    <<pc, verdict, called, raw, result, total_fields, filled_fields, quality,
      ocr_text, steps, stats>>

\* the variables of the concurrent calls of extract_po_data
callVars == <<classifier, extractors, store, calls, returns>>

\* the variables of register_po
regVars == <<reg, tables>>

\* the variables of the OCR routes
webVars == <<answer, upload, tasks>>

vars == <<pipeVars, callVars, job, regVars, webVars>>

-----------------------------------------------------------------------------
(* Bounds of the model. *)

\* longest line-item list an extractor returns in the model
MaxProducts == 2

\* longest generated field string handed to validate_and_clean_result
MaxLen == 3

-----------------------------------------------------------------------------
(* Strings. *)

Digits == {"0", "1", "2", "3", "4", "5", "6", "7", "8", "9"}

\* `sub in s` of Python
Contains(s, sub) ==
    \E i \in 1..(Len(s) - Len(sub) + 1) : SubSeq(s, i, i + Len(sub) - 1) = sub

\* a character the pattern [^\d,.] does not match, so that re.sub keeps it
KeptChar(c) == c \in Digits \cup {",", "."}

RECURSIVE StripToDigits(_)
\* StripToNumeric with the pattern [^\d]: the separators are dropped too
StripToDigits(s) ==
    IF s = "" THEN ""
    ELSE (IF SubSeq(s, 1, 1) \in Digits THEN SubSeq(s, 1, 1) ELSE "")
         \o StripToDigits(SubSeq(s, 2, Len(s)))

RECURSIVE StripToNumeric(_)
\* re.sub(r'[^\d,.]', '', s)
StripToNumeric(s) ==
    IF s = "" THEN ""
    ELSE (IF KeptChar(SubSeq(s, 1, 1)) THEN SubSeq(s, 1, 1) ELSE "")
         \o StripToNumeric(SubSeq(s, 2, Len(s)))

UnitTokens == {"kg", "KG", "mt", "MT"}

CurrencySymbols == {"$", "USD"}

\* CleanQuantity testing the currency symbols beside the unit tokens
CleanQuantityAnyMarker(q) ==
    IF q # "" /\ \E marker \in {"kg", "KG", "mt", "MT", "$", "USD"} : Contains(q, marker)
    THEN StripToNumeric(q) ELSE q

\* the quantity branch of the loop over result["products"]
CleanQuantity(q) ==
    IF q # "" /\ \E unit \in UnitTokens : Contains(q, unit)
    THEN StripToNumeric(q) ELSE q

\* the unitPrice, amount and totalAmount branches
CleanMoney(v) ==
    IF v # "" /\ \E symbol \in CurrencySymbols : Contains(v, symbol)
    THEN StripToNumeric(v) ELSE v

-----------------------------------------------------------------------------
(* Records. *)

\* the placeholder validate_and_clean_result appends
SentinelProduct ==
    [name |-> "Unknown Product", quantity |-> "", unitPrice |-> "", amount |-> ""]

\* EnsureProducts with the test inverted: `if result["products"]`
EnsureProductsInverted(products) ==
    IF products # <<>> THEN Append(products, SentinelProduct) ELSE products

\* result["products"] after the `if not result["products"]` block
EnsureProducts(products) ==
    IF products = <<>> THEN Append(products, SentinelProduct) ELSE products

CleanProduct(product) ==
    [name      |-> product.name,
     quantity  |-> CleanQuantity(product.quantity),
     unitPrice |-> CleanMoney(product.unitPrice),
     amount    |-> CleanMoney(product.amount)]

\* the record that validate_and_clean_result leaves behind
validate_and_clean_result(r) ==
    LET products == EnsureProducts(r.products)
    IN  [customer    |-> r.customer,
         poNumber    |-> r.poNumber,
         totalAmount |-> CleanMoney(r.totalAmount),
         products    |-> [i \in 1..Len(products) |-> CleanProduct(products[i])]]

-----------------------------------------------------------------------------
(* analyze_extraction_quality. *)

essential_fields == <<"customer", "poNumber", "totalAmount">>

product_fields == <<"name", "quantity", "unitPrice", "amount">>

\* MissingEssential with totalAmount left out of essential_fields
MissingEssentialNoTotal(r) ==
    SelectSeq(<<"customer", "poNumber">>, LAMBDA field : r[field] = "")

\* [field for field in essential_fields if not result[field]]
MissingEssential(r) == SelectSeq(essential_fields, LAMBDA field : r[field] = "")

has_product(r) == Len(r.products) > 0

\* MissingProductFields reading result["products"][-1]
MissingProductFieldsOfLast(r) ==
    SelectSeq(product_fields, LAMBDA field : r.products[Len(r.products)][field] = "")

\* [field for field in product_fields if not first_product[field]]
MissingProductFields(r) ==
    SelectSeq(product_fields, LAMBDA field : r.products[1][field] = "")

RECURSIVE JoinCommaSpace(_)
\* ', '.join(names)
JoinCommaSpace(names) ==
    IF names = <<>> THEN ""
    ELSE IF Len(names) = 1 THEN names[1]
    ELSE names[1] \o ", " \o JoinCommaSpace(Tail(names))

\* missing_fields as returned
MissingFields(r) ==
    IF has_product(r)
    THEN IF MissingProductFields(r) # <<>>
         THEN Append(MissingEssential(r),
                     "products(" \o JoinCommaSpace(MissingProductFields(r)) \o ")")
         ELSE MissingEssential(r)
    ELSE Append(MissingEssential(r), "products")

\* total_fields = len(essential_fields) + (len(product_fields) if has_product else 1)
TotalFields(r) ==
    Len(essential_fields) + (IF has_product(r) THEN Len(product_fields) ELSE 1)

\* filled_fields = total_fields - len(missing_fields)
FilledFields(r) == TotalFields(r) - Len(MissingFields(r))

\* round(num / den, 2) in hundredths: the nearest hundredth, a tie going to the
\* even one.  No ratio the assessor forms is within a float error of a tie.
Round2(num, den) ==
    LET x    == 100 * num
        q    == x \div den
        rem2 == 2 * (x - q * den)
    IN  IF rem2 > den \/ (rem2 = den /\ q % 2 = 1) THEN q + 1 ELSE q

\* round(completeness, 2), completeness = filled / total
Completeness(filled, total) == Round2(filled, total)

\* Confidence without the min(1.0, ...) cap
ConfidenceUncapped(filled, total) == Round2(12 * filled, 10 * total)

\* Confidence computed from the rounded completeness
ConfidenceOfRounded(filled, total) ==
    IF 12 * Round2(filled, total) >= 1000 THEN 100
    ELSE Round2(12 * Round2(filled, total), 1000)

\* round(min(1.0, completeness * 1.2), 2), on the unrounded completeness
Confidence(filled, total) ==
    IF 12 * filled >= 10 * total THEN 100 ELSE Round2(12 * filled, 10 * total)

\* the three messages of analyze_extraction_quality, in English
RecLowQuality == "extraction quality is low: check the input by hand"

RecFillMissing == "filling the missing fields by hand is recommended"

RecQualityGood == "extraction quality is good: check the content and proceed"

\* Recommendation with `completeness <= 0.5` as its first test
RecommendationInclusive(filled, total) ==
    IF 2 * filled <= total THEN RecLowQuality
    ELSE IF 5 * filled < 4 * total THEN RecFillMissing
    ELSE RecQualityGood

\* if completeness < 0.5 ... elif completeness < 0.8 ... else, on the unrounded
\* completeness filled / total
Recommendation(filled, total) ==
    IF 2 * filled < total THEN RecLowQuality
    ELSE IF 5 * filled < 4 * total THEN RecFillMissing
    ELSE RecQualityGood

analyze_extraction_quality(r) ==
    [completeness   |-> Completeness(FilledFields(r), TotalFields(r)),
     confidence     |-> Confidence(FilledFields(r), TotalFields(r)),
     missing_fields |-> MissingFields(r),
     recommendation |-> Recommendation(FilledFields(r), TotalFields(r))]

-----------------------------------------------------------------------------
(* extract_po_data: the dispatch on the classifier's verdict. *)

\* the 0.4 of the three comparisons, in hundredths
Threshold == 40

\* Dispatch with `confidence > 0.4`
DispatchStrict(po_format, confidence) ==
    IF po_format = "format1" /\ confidence > Threshold THEN "format1"
    ELSE IF po_format = "format2" /\ confidence > Threshold THEN "format2"
    ELSE IF po_format = "format3" /\ confidence > Threshold THEN "format3"
    ELSE "generic"

Dispatch(po_format, confidence) ==
    IF po_format = "format1" /\ confidence >= Threshold THEN "format1"
    ELSE IF po_format = "format2" /\ confidence >= Threshold THEN "format2"
    ELSE IF po_format = "format3" /\ confidence >= Threshold THEN "format3"
    ELSE "generic"

\* the function of app.ocr_extractors behind each branch
ExtractorName(branch) ==
    CASE branch = "format1" -> "extract_format1_data"
      [] branch = "format2" -> "extract_format2_data"
      [] branch = "format3" -> "extract_format3_data"
      [] OTHER              -> "extract_generic_data"

-----------------------------------------------------------------------------
(* Inputs. *)

\* what identify_po_format may return: a format and a confidence in hundredths
Formats == {"format1", "format2", "format3", "unknown"}

ConfidenceValues == {0, 39, 40, 41, 100}

Verdicts == Formats \X ConfidenceValues

\* what an extractor may return: header fields and line items, each field
\* empty, carrying a unit or currency marker, or clean
Customers == {"", "Acme Corp"}

PoNumbers == {"", "PO-100"}

TotalAmounts == {"", "$500.00", "100 usd"}

Items ==
    [name : {"", "Widget"}, quantity : {"", "500 MT", "500 pcs"},
     unitPrice : {"", "$1,234.56"}, amount : {"", "USD 12"}]

\* the line items after the first
MoreItems ==
    { [name |-> "", quantity |-> "", unitPrice |-> "", amount |-> ""],
      [name |-> "Bolt", quantity |-> "5kg", unitPrice |-> "", amount |-> "$9"],
      [name |-> "Nut", quantity |-> "10 Kg", unitPrice |-> "USD 3", amount |-> "30"] }

RECURSIVE ItemLists(_)
ItemLists(n) ==
    IF n = 0 THEN {<<>>}
    ELSE ItemLists(n - 1)
         \cup {Append(l, item) : l \in {k \in ItemLists(n - 1) : Len(k) = n - 1},
                                 item \in MoreItems}

ProductLists ==
    {<<>>} \cup {<<first>> \o more : first \in Items, more \in ItemLists(MaxProducts - 1)}

Records ==
    [customer : Customers, poNumber : PoNumbers, totalAmount : TotalAmounts,
     products : ProductLists]

\* the characters of the generated field strings
Chars == {"5", "0", ",", ".", "$", "U", "S", "D", "k", "g", "M", "T", " "}

RECURSIVE StringsOfLen(_)
StringsOfLen(n) ==
    IF n = 0 THEN {""} ELSE {s \o c : s \in StringsOfLen(n - 1), c \in Chars}

\* the field values handed to validate_and_clean_result on its own
FieldStrings ==
    UNION {StringsOfLen(n) : n \in 0..MaxLen}
    \cup {"$1,234.56", "500 MT", "500 pcs", "10 Kg", "100 usd", "5KG", "12 mt",
          "USD 1,000.50", "1,234.56"}

\* a record with one line item, every cleaned field holding s
FieldRecord(s) ==
    [customer |-> s, poNumber |-> s, totalAmount |-> s,
     products |-> <<[name |-> s, quantity |-> s, unitPrice |-> s, amount |-> s]>>]

\* the texts handed to extract_po_data
Texts == {"", "PO-100 Acme Corp"}

-----------------------------------------------------------------------------
(* get_extraction_stats. *)

\* len(ocr_text.split()): the maximal runs of characters other than blanks
WordCount(s) ==
    Cardinality({i \in 1..Len(s) :
                    /\ SubSeq(s, i, i) # " "
                    /\ (i = 1 \/ SubSeq(s, i - 1, i - 1) = " ")})

all_formats == <<"format1", "format2", "format3", "unknown">>

\* FormatCandidates without the test `fmt != format_name` in the loop
FormatCandidatesAllZero(format_name, confidence) ==
    [fmt \in {format_name} \cup {all_formats[i] : i \in 1..Len(all_formats)} |-> 0]

\* stats["format_candidates"] after the assignment of the verdict's key and
\* the loop over all_formats
FormatCandidates(format_name, confidence) ==
    [fmt \in {format_name}
              \cup ({all_formats[i] : i \in 1..Len(all_formats)} \ {format_name})
       |-> IF fmt = format_name THEN confidence ELSE 0]

\* the stats dictionary for a text, the verdict on it and the assessment
get_extraction_stats(text, v, assessment) ==
    [text_length        |-> Len(text),
     word_count         |-> WordCount(text),
     format_candidates  |-> FormatCandidates(v[1], v[2]),
     extraction_time_ms |-> 0,
     quality_assessment |-> assessment]

NoRecord ==
    [customer |-> "", poNumber |-> "", totalAmount |-> "", products |-> <<>>]

NoVerdict == <<"none", 0>>

NoQuality ==
    [completeness |-> 0, confidence |-> 0, missing_fields |-> <<>>,
     recommendation |-> ""]

NoStats == get_extraction_stats("", NoVerdict, NoQuality)

-----------------------------------------------------------------------------
(* extract_po_data called with an OCR id or a text, several calls at a time. *)

\* the calls of extract_po_data that may be in progress together
MaxCalls == 2

CallIds == 1..MaxCalls

OcrIds == {1}

\* a NULL column
Null == "<NULL>"

\* the JSON object "{}" that a new row holds: keys are the keys it has
EmptyJson ==
    [keys |-> {}, text_content |-> "", processing_method |-> "", error |-> "",
     data |-> NoRecord, stats |-> NoStats]

\* no row with that ocr_id: .first() returns None
NoRow == [status |-> "none", raw_text |-> Null, processed_data |-> EmptyJson]

\* the rows of OCRResult a call may find; processed_data is the JSON object
\* that the stored string encodes
StoredRows ==
    { [status |-> "completed", raw_text |-> "PO-100 Acme Corp",
       processed_data |-> [EmptyJson EXCEPT !.keys = {"text_content"}]],
      [status |-> "completed", raw_text |-> Null,
       processed_data |-> [EmptyJson EXCEPT !.keys = {"text_content"},
                                            !.text_content = "PO-100 Acme Corp"]] }

\* processed_data.get(key, default)
JsonGet(object, key, default) ==
    IF key \in object.keys THEN object[key] ELSE default

\* TextOfOcrId without the fallback to processed_data
TextOfOcrIdRawOnly(row, db_raises) ==
    IF db_raises \/ row = NoRow \/ row.raw_text = Null THEN "" ELSE row.raw_text

\* the int branch: the text of the row, "" when the query raises, when there is
\* no row, or when neither raw_text nor processed_data gives one
TextOfOcrId(row, db_raises) ==
    IF db_raises THEN ""
    ELSE IF row # NoRow /\ row.raw_text # Null THEN row.raw_text
    ELSE IF row # NoRow THEN JsonGet(row.processed_data, "text_content", "")
    ELSE ""

\* the arguments: a text, or an OCR id
Args == [kind : {"str"}, text : Texts, id : {0}]
        \cup [kind : {"int"}, text : {""}, id : OcrIds]

NoArg == [kind |-> "none", text |-> "", id |-> 0]

\* SessionsOpened with SessionLocal() called ahead of the isinstance test
SessionsOpenedAlways(arg) == 1

\* the database sessions that extract_po_data opens for its argument
SessionsOpened(arg) == IF arg.kind = "int" THEN 1 ELSE 0

\* what identify_po_format and the extractors answer in the concurrent calls
CallVerdicts == {<<"format1", 40>>, <<"format1", 39>>}

CallRecords ==
    { NoRecord,
      [customer |-> "Acme Corp", poNumber |-> "PO-100", totalAmount |-> "$500.00",
       products |-> <<[name |-> "Widget", quantity |-> "500 MT",
                       unitPrice |-> "$1,234.56", amount |-> "USD 12"]>>] }

IdleCall ==
    [pc |-> "idle", arg |-> NoArg, ocr_text |-> "", verdict |-> NoVerdict,
     called |-> "none", result |-> NoRecord, sessions |-> 0, db_error |-> FALSE]

\* BindText with ocr_text a module-level name, shared by the calls
BindTextGlobal(cs, c, t) == [k \in DOMAIN cs |-> [cs[k] EXCEPT !.ocr_text = t]]

\* ocr_text = ...: a local of the call
BindText(cs, c, t) == [cs EXCEPT ![c].ocr_text = t]

\* BindResult with result a module-level name, shared by the calls
BindResultGlobal(cs, c, r) == [k \in DOMAIN cs |-> [cs[k] EXCEPT !.result = r]]

\* result = extract_...(ocr_text): a local of the call
BindResult(cs, c, r) == [cs EXCEPT ![c].result = r]

-----------------------------------------------------------------------------
(* The background task process_ocr_with_enhanced_extraction of one upload. *)

\* the id of the row that upload_file created for the job
JobOcrId == CHOOSE id \in OcrIds : TRUE

\* the row that upload_file commits before it schedules the task
UploadedRow == [status |-> "processing", raw_text |-> "", processed_data |-> EmptyJson]

\* the extension of the saved file, lower-cased
Extensions == {"pdf", "image", "other"}

\* the texts that OCR or pdfminer may read from the file
OcrTexts == Texts

PdfErrorNotice == "PDF processing error"

ImageNotice == "Image OCR needs Tesseract"

UnsupportedNotice == "Unsupported file type"

\* raw_text of process_document_fallback: the text of pdfminer for a PDF, or
\* a notice
FallbackTexts(ext) ==
    IF ext = "pdf" THEN OcrTexts \cup {PdfErrorNotice}
    ELSE IF ext = "image" THEN {ImageNotice}
    ELSE {UnsupportedNotice}

\* json.dumps of the details that process_document and its fallback store
OcrDetails(text, method) ==
    [EmptyJson EXCEPT !.keys = {"original_filename", "text_content",
                                "processing_method", "processing_timestamp"}
                              \cup (IF method = "fallback_pdfminer"
                                    THEN {"warning"} ELSE {}),
                      !.text_content = text,
                      !.processing_method = method]

\* json.dumps({"error": str(e)})
ErrorJson(message) == [EmptyJson EXCEPT !.keys = {"error"}, !.error = message]

\* update_ocr_result without the branch `if error_message`
UpdateWithoutErrorMessage(row, raw_text, processed_data, status, error_message, commit_ok) ==
    IF row = NoRow \/ ~commit_ok THEN row
    ELSE [status |-> status, raw_text |-> raw_text, processed_data |-> processed_data]

\* the row after update_ocr_result; the row as it was when there is none or
\* when the commit raises and is rolled back
update_ocr_result(row, raw_text, processed_data, status, error_message, commit_ok) ==
    IF row = NoRow \/ ~commit_ok THEN row
    ELSE [status         |-> status,
          raw_text       |-> raw_text,
          processed_data |->
              IF error_message # ""
              THEN [processed_data EXCEPT !.keys = @ \cup {"error"},
                                          !.error = error_message]
              ELSE processed_data]

\* OcrCompleted without the test of the status
OcrRowExists(row) == row # NoRow

\* the guard of line 509, negated: the row exists and its status is "completed"
OcrCompleted(row) == row # NoRow /\ row.status = "completed"

\* ocr_text of the task: raw_text, else text_content of processed_data
JobTextOf(row) ==
    IF row.raw_text # Null THEN row.raw_text
    ELSE JsonGet(row.processed_data, "text_content", "")

\* complete_result
CompleteResult(data, stats_, text) ==
    [EmptyJson EXCEPT !.keys = {"data", "stats", "original_filename", "text_content"},
                      !.data = data,
                      !.stats = stats_,
                      !.text_content = text]

\* SaveResult that keeps a record of low quality out of the store
SaveResultIfGoodQuality(row, complete_result) ==
    IF complete_result.stats.quality_assessment.completeness < 50 THEN row
    ELSE [row EXCEPT !.processed_data = complete_result]

\* ocr_result.processed_data = json.dumps(complete_result)
SaveResult(row, complete_result) == [row EXCEPT !.processed_data = complete_result]

\* what identify_po_format and the extractors answer in the task
JobVerdicts == CallVerdicts

JobRecords == CallRecords

NoJob ==
    [pc |-> "none", ext |-> "pdf", db_faulty |-> FALSE,
     temp_path |-> FALSE, temp_file |-> FALSE,
     cleanup_attempts |-> 0, unlink_failed |-> FALSE,
     ocr_committed |-> "unknown", ocr_text |-> "", verdict |-> NoVerdict,
     extracted |-> NoRecord, extract_calls |-> 0, error |-> ""]

-----------------------------------------------------------------------------
(* register_po: the consumer of the extracted record. *)

DigitString == "0123456789"

DigitValue(c) == (CHOOSE i \in 1..Len(DigitString) : SubSeq(DigitString, i, i) = c) - 1

RECURSIVE NatOf(_)
\* the number that a string of digits denotes; 0 for the empty string
NatOf(s) ==
    IF s = "" THEN 0
    ELSE NatOf(SubSeq(s, 1, Len(s) - 1)) * 10 + DigitValue(SubSeq(s, Len(s), Len(s)))

\* the strings that float() takes among the ones registered here: digits with
\* at most one decimal point and at least one digit
IsFloatLiteral(s) ==
    /\ \A i \in 1..Len(s) : SubSeq(s, i, i) \in Digits \cup {"."}
    /\ Cardinality({i \in 1..Len(s) : SubSeq(s, i, i) = "."}) <= 1
    /\ \E i \in 1..Len(s) : SubSeq(s, i, i) \in Digits

\* the value of a literal in hundredths (literals here have at most two decimals)
Hundredths(s) ==
    LET dots == {i \in 1..Len(s) : SubSeq(s, i, i) = "."}
        d    == IF dots = {} THEN Len(s) + 1 ELSE CHOOSE i \in dots : TRUE
        frac == SubSeq(SubSeq(s, d + 1, Len(s)) \o "00", 1, 2)
    IN  NatOf(SubSeq(s, 1, d - 1)) * 100 + NatOf(frac)

\* float(s): the value, or ValueError
ParseFloat(s) ==
    IF IsFloatLiteral(s) THEN [ok |-> TRUE, value |-> Hundredths(s)]
    ELSE [ok |-> FALSE, value |-> 0]

\* int(float(q)) if q else 0, with ValueError caught: a whole number
ItemQuantity(q) ==
    IF q # "" /\ ParseFloat(q).ok THEN ParseFloat(q).value \div 100 ELSE 0

\* float(v) if v else 0.0, with ValueError caught: hundredths
ItemMoney(v) ==
    IF v # "" /\ ParseFloat(v).ok THEN ParseFloat(v).value ELSE 0

\* float(po_data.get("totalAmount", "0")): nothing catches its ValueError
\* before the handler's except Exception
TotalAmount(po_data) ==
    ParseFloat(IF "totalAmount" \in po_data.keys THEN po_data.totalAmount ELSE "0")

required_fields == {"customer", "poNumber", "products"}

required_product_fields == {"name", "quantity", "unitPrice", "amount"}

\* the validation of lines 188-201
ValidRequest(po_data) ==
    /\ required_fields \subseteq po_data.keys
    /\ Len(po_data.products) # 0
    /\ \A i \in 1..Len(po_data.products) :
          required_product_fields \subseteq po_data.products[i].keys

\* the numeric strings that a registered record may carry
NumericStrings == {"", "500", "12.50", "1,234.56"}

ProductInputs ==
    [keys : {required_product_fields}, name : {"Widget"}, quantity : NumericStrings,
     unitPrice : {"", "12.50"}, amount : {"12.50", "1,234.56"}]
    \cup {[keys |-> required_product_fields \ {"amount"}, name |-> "Widget",
           quantity |-> "500", unitPrice |-> "12.50", amount |-> ""]}

SecondProductInputs ==
    {[keys |-> required_product_fields, name |-> "Gadget", quantity |-> "1,234.56",
      unitPrice |-> "", amount |-> "500"]}

PoProductLists ==
    {<<>>} \cup {<<p>> : p \in ProductInputs}
           \cup {<<p, q>> : p \in ProductInputs, q \in SecondProductInputs}

\* po_data.get("po_acquisition_date", ...): no such key, a date, a string that
\* is no date, a value that is no string
DateInputs == {"absent", "iso_date", "malformed", "not_a_string"}

\* datetime.strptime raises TypeError, which the except ValueError of lines
\* 248-254 does not catch
DateRaises(po_data) == po_data.po_acquisition_date = "not_a_string"

\* the bodies of the requests
PoRequests ==
    [keys : {required_fields \cup {"totalAmount"}}, customer : {"Acme Corp"},
     poNumber : {"PO-100"}, totalAmount : NumericStrings, products : PoProductLists,
     po_acquisition_date : DateInputs]
    \cup [keys : {required_fields, required_fields \ {"customer"}},
          customer : {"Acme Corp"}, poNumber : {"PO-100"}, totalAmount : {""},
          products : PoProductLists, po_acquisition_date : {"absent"}]

NoRequest ==
    [pc |-> "none", po_data |-> [keys |-> {}, customer |-> "", poNumber |-> "",
                                 totalAmount |-> "", products |-> <<>>,
                                 po_acquisition_date |-> "absent"],
     db_faulty |-> FALSE, response |-> 0]

NoTables == [orders |-> <<>>, items |-> <<>>, inputs |-> <<>>]

\* the OrderItem rows of the products, for the purchase order po_id
OrderItems(po_id, products) ==
    [i \in 1..Len(products) |->
        [po_id        |-> po_id,
         product_name |-> products[i].name,
         quantity     |-> ItemQuantity(products[i].quantity),
         unit_price   |-> ItemMoney(products[i].unitPrice),
         subtotal     |-> ItemMoney(products[i].amount)]]

-----------------------------------------------------------------------------
(* The routes of an OCR job: upload, status, extract. *)

\* the status codes of the answers
HttpOk == 200

HttpAccepted == 202

HttpBadRequest == 400

HttpNotFound == 404

HttpServerError == 500

\* the ocr_id of the path, as the client writes it
RequestIds == {"1", "2", "abc"}

\* int(ocr_id) does not raise ValueError: a string of digits, among RequestIds
IsIntLiteral(s) ==
    /\ s # ""
    /\ \A i \in 1..Len(s) : SubSeq(s, i, i) \in Digits

\* .first() of the query on OCRResult.ocr_id
RowOf(rows, ocr_id) ==
    IF NatOf(ocr_id) \in DOMAIN rows THEN rows[NatOf(ocr_id)] ELSE NoRow

NoAnswer ==
    [route |-> "none", ocr_id |-> "", code |-> 0, status |-> "",
     has_data |-> FALSE, data |-> NoRecord]

\* the answer of GET /api/ocr/extract/{ocr_id}
get_ocr_data(rows, ocr_id) ==
    LET a == [NoAnswer EXCEPT !.route = "extract", !.ocr_id = ocr_id]
    IN  IF ~IsIntLiteral(ocr_id) THEN [a EXCEPT !.code = HttpBadRequest]
        ELSE IF RowOf(rows, ocr_id) = NoRow THEN [a EXCEPT !.code = HttpNotFound]
        ELSE IF RowOf(rows, ocr_id).status # "completed"
             THEN [a EXCEPT !.code = HttpAccepted]
        ELSE [a EXCEPT !.code = HttpOk,
                       !.status = "success",
                       !.has_data = "data" \in RowOf(rows, ocr_id).processed_data.keys,
                       !.data = JsonGet(RowOf(rows, ocr_id).processed_data,
                                        "data", NoRecord)]

\* the answer of GET /api/ocr/status/{ocr_id}: the HTTPException raised for a
\* missing row is caught by the except Exception of the route
check_ocr_status(rows, ocr_id) ==
    LET a == [NoAnswer EXCEPT !.route = "status", !.ocr_id = ocr_id]
    IN  IF ~IsIntLiteral(ocr_id) THEN [a EXCEPT !.code = HttpBadRequest]
        ELSE IF RowOf(rows, ocr_id) = NoRow
             THEN [a EXCEPT !.code = HttpOk, !.status = "error"]
        ELSE [a EXCEPT !.code = HttpOk, !.status = RowOf(rows, ocr_id).status]

HttpPayloadTooLarge == 413

HttpUnprocessable == 422

\* config.py: the largest upload accepted, in bytes
MAX_FILE_SIZE == 10485760

ALLOWED_EXTENSIONS == {"pdf", "png", "jpg", "jpeg"}

UpperLetters == "ABCDEFGHIJKLMNOPQRSTUVWXYZ"

LowerLetters == "abcdefghijklmnopqrstuvwxyz"

RECURSIVE Lower(_)
\* str.lower()
Lower(s) ==
    IF s = "" THEN ""
    ELSE LET c  == SubSeq(s, 1, 1)
             up == {i \in 1..Len(UpperLetters) : SubSeq(UpperLetters, i, i) = c}
         IN  (IF up = {} THEN c
              ELSE LET i == CHOOSE i \in up : TRUE IN SubSeq(LowerLetters, i, i))
             \o Lower(SubSeq(s, 2, Len(s)))

\* filename.rsplit('.', 1)[1], for a filename with a dot
ExtensionOf(filename) ==
    LET dots == {i \in 1..Len(filename) : SubSeq(filename, i, i) = "."}
        last == CHOOSE i \in dots : \A j \in dots : j <= i
    IN  SubSeq(filename, last + 1, Len(filename))

\* allowed_file without .lower()
AllowedFileCaseSensitive(filename) ==
    /\ Contains(filename, ".")
    /\ ExtensionOf(filename) \in ALLOWED_EXTENSIONS

allowed_file(filename) ==
    /\ Contains(filename, ".")
    /\ Lower(ExtensionOf(filename)) \in ALLOWED_EXTENSIONS

\* the names of the uploaded files
Filenames ==
    {"", "po.pdf", "po.PDF", "po.Jpg", "po.png", "a.b.jpeg", ".pdf",
     "po.txt", "po", "po.pdf.exe", "pdf", "po."}

\* len(file_data)
FileSizes == {0, MAX_FILE_SIZE, MAX_FILE_SIZE + 1}

NoUpload ==
    [pc |-> "none", filename |-> "", size |-> 0, read_fails |-> FALSE,
     db_faulty |-> FALSE, code |-> 0, ocr_id |-> 0]

\* no request of the OCR routes has been handled
WebIdle ==
    /\ answer = NoAnswer
    /\ upload = NoUpload
    /\ tasks = <<>>

\* no call of extract_po_data is in progress
PipeIdle ==
    /\ pc = "idle"
    /\ verdict = NoVerdict
    /\ called = "none"
    /\ raw = NoRecord
    /\ result = NoRecord
    /\ total_fields = 0
    /\ filled_fields = 0
    /\ quality = NoQuality
    /\ ocr_text = ""
    /\ steps = <<>>
    /\ stats = NoStats

Init ==
    /\ PipeIdle
    /\ classifier = <<>>
    /\ extractors = <<>>
    /\ store = [id \in OcrIds |-> NoRow]
    /\ calls = [c \in CallIds |-> IdleCall]
    /\ returns = {}
    /\ job = NoJob
    /\ reg = NoRequest
    /\ tables = NoTables
    /\ WebIdle

-----------------------------------------------------------------------------
(* extract_po_data, step by step. *)

\* po_format, confidence = identify_po_format(ocr_text)
IdentifyPoFormat ==
    /\ pc = "idle"
    /\ \E t \in Texts : ocr_text' = t
    /\ \E v \in Verdicts : verdict' = v
    /\ steps' = Append(steps, "identify_po_format")
    /\ pc' = "classified"
    /\ UNCHANGED <<called, raw, result, total_fields, filled_fields, quality, stats>>
    /\ UNCHANGED <<callVars, job, regVars, webVars>>

\* the if/elif/else chain: one extractor is called and returns a record
CallExtractor ==
    /\ pc = "classified"
    /\ called' = Dispatch(verdict[1], verdict[2])
    /\ \E r \in Records : raw' = r /\ result' = r
    /\ steps' = Append(steps, ExtractorName(Dispatch(verdict[1], verdict[2])))
    /\ pc' = "extracted"
    /\ UNCHANGED <<verdict, total_fields, filled_fields, quality, ocr_text, stats>>
    /\ UNCHANGED <<callVars, job, regVars, webVars>>

\* ValidateAndReturn without the call of validate_and_clean_result
ReturnUnvalidated ==
    /\ pc = "extracted"
    /\ pc' = "returned"
    /\ UNCHANGED <<verdict, called, raw, result, total_fields, filled_fields,
                   quality, ocr_text, steps, stats>>
    /\ UNCHANGED <<callVars, job, regVars, webVars>>

\* validate_and_clean_result(result); return result
ValidateAndReturn ==
    /\ pc = "extracted"
    /\ result' = validate_and_clean_result(result)
    /\ steps' = Append(steps, "validate_and_clean_result")
    /\ pc' = "returned"
    /\ UNCHANGED <<verdict, called, raw, total_fields, filled_fields, quality,
                   ocr_text, stats>>
    /\ UNCHANGED <<callVars, job, regVars, webVars>>

\* analyze_extraction_quality on the record extract_po_data returned
AnalyzeReturned ==
    /\ pc = "returned"
    /\ total_fields' = TotalFields(result)
    /\ filled_fields' = FilledFields(result)
    /\ quality' = analyze_extraction_quality(result)
    /\ pc' = "assessed"
    /\ UNCHANGED <<verdict, called, raw, result, ocr_text, steps, stats>>
    /\ UNCHANGED <<callVars, job, regVars, webVars>>

\* get_extraction_stats after its quality_assessment entry: identify_po_format
\* is called on the same text again (the classifier is deterministic: the
\* verdict is the one extract_po_data got) and format_candidates is filled
GetExtractionStats ==
    /\ pc = "assessed"
    /\ called # "none"
    /\ stats' = get_extraction_stats(ocr_text, verdict, quality)
    /\ pc' = "stats"
    /\ UNCHANGED <<verdict, called, raw, result, total_fields, filled_fields,
                   quality, ocr_text, steps>>
    /\ UNCHANGED <<callVars, job, regVars, webVars>>

\* analyze_extraction_quality called on a record as it is
AnalyzeRecord ==
    /\ pc = "idle"
    /\ \E r \in Records :
          /\ raw' = r
          /\ result' = r
          /\ total_fields' = TotalFields(r)
          /\ filled_fields' = FilledFields(r)
          /\ quality' = analyze_extraction_quality(r)
    /\ pc' = "assessed"
    /\ UNCHANGED <<verdict, called, ocr_text, steps, stats>>
    /\ UNCHANGED <<callVars, job, regVars, webVars>>

\* validate_and_clean_result called on a record as it is
ValidateRecord ==
    /\ pc = "idle"
    /\ \E s \in FieldStrings :
          /\ raw' = FieldRecord(s)
          /\ result' = validate_and_clean_result(FieldRecord(s))
    /\ pc' = "cleaned"
    /\ UNCHANGED <<verdict, called, total_fields, filled_fields, quality,
                   ocr_text, steps, stats>>
    /\ UNCHANGED <<callVars, job, regVars, webVars>>

-----------------------------------------------------------------------------
(* Concurrent calls of extract_po_data. *)

\* extract_po_data(ocr_data) is entered; the isinstance test: the text is read
\* from the store, or is the argument
CallResolve(c) ==
    /\ calls[c].pc = "idle"
    /\ \E a \in Args :
       \E db_raises \in (IF a.kind = "int" THEN BOOLEAN ELSE {FALSE}) :
          calls' = [BindText(calls, c,
                             IF a.kind = "int"
                             THEN TextOfOcrId(store[a.id], db_raises)
                             ELSE a.text)
                      EXCEPT ![c].pc = "resolved",
                             ![c].arg = a,
                             ![c].sessions = SessionsOpened(a),
                             ![c].db_error = db_raises]
    /\ UNCHANGED <<pipeVars, classifier, extractors, store, returns, job, regVars, webVars>>

\* po_format, confidence = identify_po_format(ocr_text), then the if/elif/else
\* chain: the classifier and the extractors answer the same for the same text
CallExtract(c) ==
    /\ calls[c].pc = "resolved"
    /\ LET t == calls[c].ocr_text
       IN  \E v \in (IF t \in DOMAIN classifier THEN {classifier[t]} ELSE CallVerdicts) :
             LET branch == Dispatch(v[1], v[2])
                 key    == <<ExtractorName(branch), t>>
             IN  \E r \in (IF key \in DOMAIN extractors
                            THEN {extractors[key]} ELSE CallRecords) :
                   /\ classifier' = (t :> v) @@ classifier
                   /\ extractors' = (key :> r) @@ extractors
                   /\ calls' = [BindResult(calls, c, r)
                                  EXCEPT ![c].pc = "extracted",
                                         ![c].verdict = v,
                                         ![c].called = branch]
    /\ UNCHANGED <<pipeVars, store, returns, job, regVars, webVars>>

\* validate_and_clean_result(result); return result
CallReturn(c) ==
    /\ calls[c].pc = "extracted"
    /\ returns' = returns \cup
                     {[arg      |-> calls[c].arg,
                       text     |-> calls[c].ocr_text,
                       record   |-> validate_and_clean_result(calls[c].result),
                       sessions |-> calls[c].sessions,
                       db_error |-> calls[c].db_error]}
    /\ calls' = [calls EXCEPT ![c] = IdleCall]
    /\ UNCHANGED <<pipeVars, classifier, extractors, store, job, regVars, webVars>>

InitCalls ==
    /\ PipeIdle
    /\ classifier = <<>>
    /\ extractors = <<>>
    /\ store \in [OcrIds -> StoredRows \cup {NoRow}]
    /\ calls = [c \in CallIds |-> IdleCall]
    /\ returns = {}
    /\ job = NoJob
    /\ reg = NoRequest
    /\ tables = NoTables
    /\ WebIdle

NextCalls ==
    \E c \in CallIds :
        CallResolve(c) \/ CallExtract(c) \/ CallReturn(c)

SpecCalls == InitCalls /\ [][NextCalls]_vars

-----------------------------------------------------------------------------
(* process_ocr_with_enhanced_extraction, step by step. *)

\* the commits of a step succeed, or may raise when the database is faulty
CommitOutcomes == IF job.db_faulty THEN BOOLEAN ELSE {TRUE}

JobRow == store[JobOcrId]

\* TempFileManager() and save_uploaded_file: the file is saved, or open raises
\* and the row is marked failed, or the constructor raises
JobSaveTemp ==
    /\ job.pc = "scheduled"
    /\ \/ /\ job' = [job EXCEPT !.pc = "saved", !.temp_path = TRUE, !.temp_file = TRUE]
          /\ UNCHANGED store
       \/ \E commit_ok \in CommitOutcomes :
             /\ store' = [store EXCEPT ![JobOcrId] =
                            update_ocr_result(JobRow, "", ErrorJson("save failed"),
                                              "failed", "save failed", commit_ok)]
             /\ job' = [job EXCEPT !.pc = "returned",
                                    !.ocr_committed = store'[JobOcrId].status]
       \/ /\ job' = [job EXCEPT !.pc = "raised", !.error = "mkdir failed"]
          /\ UNCHANGED store
    /\ UNCHANGED <<pipeVars, classifier, extractors, calls, returns, regVars, webVars>>

\* process_document with Tesseract: the text of the pages, or of the image
JobOcrTesseract ==
    /\ job.pc = "saved"
    /\ job.ext \in {"pdf", "image"}
    /\ \E text \in OcrTexts : \E commit_ok \in CommitOutcomes :
          store' = [store EXCEPT ![JobOcrId] =
                      update_ocr_result(JobRow, text, OcrDetails(text, "tesseract_ocr"),
                                        "completed", "", commit_ok)]
    /\ job' = [job EXCEPT !.pc = "processed"]
    /\ UNCHANGED <<pipeVars, classifier, extractors, calls, returns, regVars, webVars>>

\* process_document_fallback: Tesseract is not available (any extension), or
\* the conversion of the PDF raised
JobOcrFallback ==
    /\ job.pc = "saved"
    /\ \E text \in FallbackTexts(job.ext) : \E commit_ok \in CommitOutcomes :
          store' = [store EXCEPT ![JobOcrId] =
                      update_ocr_result(JobRow, text, OcrDetails(text, "fallback_pdfminer"),
                                        "completed", "", commit_ok)]
    /\ job' = [job EXCEPT !.pc = "processed"]
    /\ UNCHANGED <<pipeVars, classifier, extractors, calls, returns, regVars, webVars>>

\* process_document with Tesseract: the image cannot be read, or the extension
\* is not supported
JobOcrFails ==
    /\ job.pc = "saved"
    /\ job.ext \in {"image", "other"}
    /\ \E commit_ok \in CommitOutcomes :
          store' = [store EXCEPT ![JobOcrId] =
                      update_ocr_result(JobRow, "", EmptyJson, "failed",
                                        IF job.ext = "image" THEN "image error"
                                        ELSE "unsupported file type", commit_ok)]
    /\ job' = [job EXCEPT !.pc = "processed"]
    /\ UNCHANGED <<pipeVars, classifier, extractors, calls, returns, regVars, webVars>>

\* process_document_fallback raises inside its try: its except branch marks
\* the row failed
JobFallbackRaises ==
    /\ job.pc = "saved"
    /\ \E commit_ok \in CommitOutcomes :
          store' = [store EXCEPT ![JobOcrId] =
                      update_ocr_result(JobRow, "", ErrorJson("fallback failed"),
                                        "failed", "fallback failed", commit_ok)]
    /\ job' = [job EXCEPT !.pc = "processed"]
    /\ UNCHANGED <<pipeVars, classifier, extractors, calls, returns, regVars, webVars>>

\* JobCleanup without the finally block
JobCleanupSkipped ==
    /\ job.pc = "processed"
    /\ job' = [job EXCEPT !.pc = "returned", !.ocr_committed = JobRow.status]
    /\ UNCHANGED <<pipeVars, callVars, regVars, webVars>>

\* finally: cleanup_file(temp_path); an OSError of unlink is logged
JobCleanup ==
    /\ job.pc = "processed"
    /\ \E unlinked \in BOOLEAN :
          job' = [job EXCEPT !.pc = "returned", !.temp_file = ~unlinked,
                             !.cleanup_attempts = @ + 1,
                             !.unlink_failed = ~unlinked,
                             !.ocr_committed = JobRow.status]
    /\ UNCHANGED <<pipeVars, callVars, regVars, webVars>>

\* the query and the guard of lines 508-511, then the text of lines 514-522
JobQuery ==
    /\ job.pc = "returned"
    /\ \/ /\ job.db_faulty
          /\ job' = [job EXCEPT !.pc = "raised", !.error = "query failed"]
       \/ job' = IF OcrCompleted(JobRow)
                 THEN [job EXCEPT !.pc = "read", !.ocr_text = JobTextOf(JobRow)]
                 ELSE [job EXCEPT !.pc = "closing"]
    /\ UNCHANGED <<pipeVars, callVars, regVars, webVars>>

\* extracted_data = extract_po_data(ocr_text)
JobExtract ==
    /\ job.pc = "read"
    /\ \E v \in JobVerdicts : \E r \in JobRecords :
          job' = [job EXCEPT !.pc = "extracted",
                             !.verdict = v,
                             !.extracted = validate_and_clean_result(r),
                             !.extract_calls = @ + 1]
    /\ UNCHANGED <<pipeVars, callVars, regVars, webVars>>

\* get_extraction_stats, complete_result and the commit of lines 528-540
JobSave ==
    /\ job.pc = "extracted"
    /\ \E commit_ok \in CommitOutcomes :
          IF commit_ok
          THEN /\ store' = [store EXCEPT ![JobOcrId] =
                              SaveResult(JobRow,
                                  CompleteResult(job.extracted,
                                      get_extraction_stats(job.ocr_text, job.verdict,
                                          analyze_extraction_quality(job.extracted)),
                                      job.ocr_text))]
               /\ job' = [job EXCEPT !.pc = "closing"]
          ELSE /\ job' = [job EXCEPT !.pc = "raised", !.error = "commit failed"]
               /\ UNCHANGED store
    /\ UNCHANGED <<pipeVars, classifier, extractors, calls, returns, regVars, webVars>>

\* JobFail with an except block that only logs
JobFailLogsOnly ==
    /\ job.pc = "raised"
    /\ job' = [job EXCEPT !.pc = "closing"]
    /\ UNCHANGED <<pipeVars, callVars, regVars, webVars>>

\* except Exception: the row is marked failed, unless that raises too
JobFail ==
    /\ job.pc = "raised"
    /\ \E commit_ok \in CommitOutcomes :
          store' = [store EXCEPT ![JobOcrId] =
                      IF JobRow = NoRow \/ ~commit_ok THEN JobRow
                      ELSE [JobRow EXCEPT !.status = "failed",
                                          !.processed_data = ErrorJson(job.error)]]
    /\ job' = [job EXCEPT !.pc = "closing"]
    /\ UNCHANGED <<pipeVars, classifier, extractors, calls, returns, regVars, webVars>>

\* finally: db.close()
JobClose ==
    /\ job.pc = "closing"
    /\ job' = [job EXCEPT !.pc = "done"]
    /\ UNCHANGED <<pipeVars, callVars, regVars, webVars>>

\* a client asks for the extracted data, at any moment of the task
GetOcrData ==
    /\ \E ocr_id \in RequestIds : answer' = get_ocr_data(store, ocr_id)
    /\ UNCHANGED <<pipeVars, callVars, job, regVars, upload, tasks>>

\* a client asks for the status, at any moment of the task
CheckOcrStatus ==
    /\ \E ocr_id \in RequestIds : answer' = check_ocr_status(store, ocr_id)
    /\ UNCHANGED <<pipeVars, callVars, job, regVars, upload, tasks>>

\* upload_file has committed the row and scheduled the task; the row may have
\* been deleted since
InitJobs ==
    /\ PipeIdle
    /\ classifier = <<>>
    /\ extractors = <<>>
    /\ store \in [OcrIds -> {UploadedRow, NoRow}]
    /\ calls = [c \in CallIds |-> IdleCall]
    /\ returns = {}
    /\ \E ext \in Extensions : \E faulty \in BOOLEAN :
          job = [NoJob EXCEPT !.pc = "scheduled", !.ext = ext, !.db_faulty = faulty]
    /\ reg = NoRequest
    /\ tables = NoTables
    /\ WebIdle

\* the steps of the background task
JobStep ==
    \/ JobSaveTemp \/ JobOcrTesseract \/ JobOcrFallback \/ JobOcrFails
    \/ JobFallbackRaises \/ JobCleanup \/ JobQuery \/ JobExtract \/ JobSave \/ JobFail \/ JobClose

NextJobs == JobStep \/ GetOcrData \/ CheckOcrStatus

SpecJobs == InitJobs /\ [][NextJobs]_vars

\* the background task is run to its end, whatever the clients ask meanwhile
SpecJobsFair == SpecJobs /\ WF_vars(JobStep)

-----------------------------------------------------------------------------
(* register_po, step by step. *)

\* validation, the PurchaseOrder and its commit (lines 188-218)
RegCreateOrder ==
    /\ reg.pc = "received"
    /\ IF ~ValidRequest(reg.po_data)
       THEN /\ reg' = [reg EXCEPT !.pc = "done", !.response = HttpBadRequest]
            /\ UNCHANGED tables
       ELSE IF ~TotalAmount(reg.po_data).ok
       THEN /\ reg' = [reg EXCEPT !.pc = "done", !.response = HttpServerError]
            /\ UNCHANGED tables
       ELSE \E commit_ok \in (IF reg.db_faulty THEN BOOLEAN ELSE {TRUE}) :
              IF commit_ok
              THEN /\ tables' = [tables EXCEPT !.orders = Append(@,
                                    [po_id         |-> Len(tables.orders) + 1,
                                     customer_name |-> reg.po_data.customer,
                                     po_number     |-> reg.po_data.poNumber,
                                     total_amount  |-> TotalAmount(reg.po_data).value])]
                   /\ reg' = [reg EXCEPT !.pc = "ordered"]
              ELSE /\ reg' = [reg EXCEPT !.pc = "done", !.response = HttpServerError]
                   /\ UNCHANGED tables
    /\ UNCHANGED <<pipeVars, callVars, job, webVars>>

\* the OrderItems, the Input row and their commit (lines 221-274)
RegCreateItems ==
    /\ reg.pc = "ordered"
    /\ \E commit_ok \in (IF reg.db_faulty THEN BOOLEAN ELSE {TRUE}) :
          IF commit_ok /\ ~DateRaises(reg.po_data)
          THEN /\ tables' = [tables EXCEPT
                                !.items = @ \o OrderItems(Len(tables.orders),
                                                          reg.po_data.products),
                                !.inputs = Append(@, [po_id |-> Len(tables.orders)])]
               /\ reg' = [reg EXCEPT !.pc = "done", !.response = HttpOk]
          ELSE /\ reg' = [reg EXCEPT !.pc = "done", !.response = HttpServerError]
               /\ UNCHANGED tables
    /\ UNCHANGED <<pipeVars, callVars, job, webVars>>

\* a request has arrived
InitRegister ==
    /\ PipeIdle
    /\ classifier = <<>>
    /\ extractors = <<>>
    /\ store = [id \in OcrIds |-> NoRow]
    /\ calls = [c \in CallIds |-> IdleCall]
    /\ returns = {}
    /\ job = NoJob
    /\ tables = NoTables
    /\ WebIdle
    /\ \E body \in PoRequests : \E faulty \in BOOLEAN :
          reg = [NoRequest EXCEPT !.pc = "received", !.po_data = body,
                                  !.db_faulty = faulty]

NextRegister == RegCreateOrder \/ RegCreateItems

SpecRegister == InitRegister /\ [][NextRegister]_vars

-----------------------------------------------------------------------------
(* upload_file, step by step. *)

\* the tests of the filename (lines 50-57)
UploadValidate ==
    /\ upload.pc = "received"
    /\ upload' = IF upload.filename = ""
                 THEN [upload EXCEPT !.pc = "done", !.code = HttpBadRequest]
                 ELSE IF ~allowed_file(upload.filename)
                 THEN [upload EXCEPT !.pc = "done", !.code = HttpUnprocessable]
                 ELSE [upload EXCEPT !.pc = "checked"]
    /\ UNCHANGED <<pipeVars, callVars, job, regVars, answer, tasks>>

\* file.read() and the test of the size (lines 59-67)
UploadRead ==
    /\ upload.pc = "checked"
    /\ upload' = IF upload.read_fails
                 THEN [upload EXCEPT !.pc = "done", !.code = HttpServerError]
                 ELSE IF upload.size > MAX_FILE_SIZE
                 THEN [upload EXCEPT !.pc = "done", !.code = HttpPayloadTooLarge]
                 ELSE [upload EXCEPT !.pc = "read"]
    /\ UNCHANGED <<pipeVars, callVars, job, regVars, answer, tasks>>

\* the OCRResult row and its commit (lines 69-86)
UploadCreateRow ==
    /\ upload.pc = "read"
    /\ \E commit_ok \in (IF upload.db_faulty THEN BOOLEAN ELSE {TRUE}) :
          IF commit_ok
          THEN /\ store' = [store EXCEPT ![JobOcrId] = UploadedRow]
               /\ upload' = [upload EXCEPT !.pc = "created", !.ocr_id = JobOcrId]
          ELSE /\ upload' = [upload EXCEPT !.pc = "done", !.code = HttpServerError]
               /\ UNCHANGED store
    /\ UNCHANGED <<pipeVars, classifier, extractors, calls, returns, job, regVars,
                   answer, tasks>>

\* background_tasks.add_task and the answer (lines 88-101)
UploadSchedule ==
    /\ upload.pc = "created"
    /\ tasks' = Append(tasks, upload.ocr_id)
    /\ upload' = [upload EXCEPT !.pc = "done", !.code = HttpOk]
    /\ UNCHANGED <<pipeVars, callVars, job, regVars, answer>>

\* a request has arrived at upload_file
InitUpload ==
    /\ PipeIdle
    /\ classifier = <<>>
    /\ extractors = <<>>
    /\ store = [id \in OcrIds |-> NoRow]
    /\ calls = [c \in CallIds |-> IdleCall]
    /\ returns = {}
    /\ job = NoJob
    /\ reg = NoRequest
    /\ tables = NoTables
    /\ answer = NoAnswer
    /\ tasks = <<>>
    /\ \E name \in Filenames : \E size \in FileSizes :
       \E read_fails \in BOOLEAN : \E faulty \in BOOLEAN :
          upload = [NoUpload EXCEPT !.pc = "received", !.filename = name,
                                    !.size = size, !.read_fails = read_fails,
                                    !.db_faulty = faulty]

NextUpload == UploadValidate \/ UploadRead \/ UploadCreateRow \/ UploadSchedule

SpecUpload == InitUpload /\ [][NextUpload]_vars

Next == IdentifyPoFormat \/ CallExtractor \/ ValidateAndReturn \/ AnalyzeReturned
        \/ GetExtractionStats \/ AnalyzeRecord

Spec == Init /\ [][Next]_vars

\* validate_and_clean_result alone, over the generated field strings
NextClean == ValidateRecord

SpecClean == Init /\ [][NextClean]_vars

-----------------------------------------------------------------------------
(* Properties. *)

\* extract_po_data has called an extractor
Dispatched == called # "none"

\* validate_and_clean_result has acted on raw and left result
Validated ==
    pc \in {"returned", "cleaned"} \/ (pc \in {"assessed", "stats"} /\ Dispatched)

\* analyze_extraction_quality has returned quality for result
Assessed == pc = "assessed"

RECURSIVE NumericPart(_)
\* the digits, commas and periods of s, in their order
NumericPart(s) ==
    IF Len(s) = 0 THEN ""
    ELSE NumericPart(SubSeq(s, 1, Len(s) - 1))
         \o (IF SubSeq(s, Len(s), Len(s)) \in
                  {"0", "1", "2", "3", "4", "5", "6", "7", "8", "9", ",", "."}
             THEN SubSeq(s, Len(s), Len(s)) ELSE "")

\* one of the tokens occurs in s
HasToken(s, tokens) ==
    \E t \in tokens : \E i \in 1..Len(s) :
        i + Len(t) - 1 <= Len(s) /\ SubSeq(s, i, i + Len(t) - 1) = t

\* the number of empty header fields of r
EmptyHeaders(r) ==
    Cardinality({f \in {"customer", "poNumber", "totalAmount"} : r[f] = ""})

\* the number of empty sub-fields of the first line item of r
EmptySubFields(r) ==
    Cardinality({f \in {"name", "quantity", "unitPrice", "amount"} :
                    r.products[1][f] = ""})

\* C1: extract_po_data calls the format1/format2/format3 extractor only when the
\* classifier returned that format with confidence >= 0.4 (0.4 itself counts),
\* and the generic extractor in every other case.
C1_DispatchByThreshold ==
    Dispatched =>
        called = (IF verdict[1] \in {"format1", "format2", "format3"} /\ verdict[2] >= 40
                  THEN verdict[1] ELSE "generic")

\* a named format at exactly 0.4 got its own extractor
C1_Witness == verdict = <<"format2", 40>> /\ called = "format2" /\ pc = "returned"

\* C2: after validate_and_clean_result the products list has length >= 1: an
\* empty list holds exactly the sentinel, a non-empty list keeps its items in
\* their order (each field as it was or stripped) and gets no sentinel.
C2_ProductsNeverEmpty ==
    Validated =>
        /\ Len(result.products) >= 1
        /\ raw.products = <<>> =>
              result.products =
                  <<[name |-> "Unknown Product", quantity |-> "",
                     unitPrice |-> "", amount |-> ""]>>
        /\ raw.products # <<>> =>
              /\ Len(result.products) = Len(raw.products)
              /\ \A i \in 1..Len(raw.products) :
                    /\ result.products[i].name = raw.products[i].name
                    /\ \A f \in {"quantity", "unitPrice", "amount"} :
                          result.products[i][f] \in
                              {raw.products[i][f], NumericPart(raw.products[i][f])}

\* an extractor returned no line item and the sentinel was put in
C2_Witness ==
    /\ pc = "returned"
    /\ raw.products = <<>>
    /\ result.products = <<SentinelProduct>>

\* C3: a quantity holding kg, KG, mt or MT, and a unitPrice, amount or
\* totalAmount holding "$" or "USD", is replaced by exactly its digits, commas
\* and periods in their original order.
C3_StrippedToNumericPart ==
    pc = "cleaned" =>
        /\ HasToken(raw.products[1].quantity, {"kg", "KG", "mt", "MT"}) =>
              result.products[1].quantity = NumericPart(raw.products[1].quantity)
        /\ HasToken(raw.products[1].unitPrice, {"$", "USD"}) =>
              result.products[1].unitPrice = NumericPart(raw.products[1].unitPrice)
        /\ HasToken(raw.products[1].amount, {"$", "USD"}) =>
              result.products[1].amount = NumericPart(raw.products[1].amount)
        /\ HasToken(raw.totalAmount, {"$", "USD"}) =>
              result.totalAmount = NumericPart(raw.totalAmount)

\* "$1,234.56" was cleaned to "1,234.56"
C3_Witness ==
    /\ pc = "cleaned"
    /\ raw.products[1].unitPrice = "$1,234.56"
    /\ result.products[1].unitPrice = "1,234.56"
    /\ result.totalAmount = "1,234.56"

\* C4: totalFields is 3 + 4 with a line item and 3 + 1 without, and filledFields
\* is totalFields minus the missing header fields minus one for each missing
\* sub-field of the first line item (one for the missing list).
C4_EachSubFieldCounts ==
    Assessed =>
        /\ total_fields = 3 + (IF result.products # <<>> THEN 4 ELSE 1)
        /\ filled_fields =
              total_fields - EmptyHeaders(result)
              - (IF result.products # <<>> THEN EmptySubFields(result) ELSE 1)

\* C5: completeness and confidence both lie in [0.0, 1.0].
C5_ScoresInUnitInterval ==
    Assessed =>
        /\ 0 <= quality.completeness /\ quality.completeness <= 100
        /\ 0 <= quality.confidence /\ quality.confidence <= 100

\* six of seven fields filled: 1.2 times the completeness is above 1.0
C5_Witness ==
    /\ Assessed
    /\ total_fields = 7
    /\ filled_fields = 6
    /\ quality.completeness = 86
    /\ quality.confidence = 100

\* C6 as stated: the confidence is min(1.0, 1.2 * c) rounded to two decimals,
\* c being the completeness reported in the same assessment.
C6_FromReportedCompleteness ==
    Assessed =>
        LET c12 == IF 12 * quality.completeness >= 1000 THEN 1000
                   ELSE 12 * quality.completeness
            d   == 10 * quality.confidence - c12
        IN  2 * (IF d < 0 THEN -d ELSE d) <= 10

\* C6 as amended: the confidence is min(1.0, 1.2 * filled / total) rounded to
\* two decimals (the hundredth nearest to it), on the unrounded ratio.
C6_FromUnroundedCompleteness ==
    Assessed =>
        LET x == IF 12 * filled_fields >= 10 * total_fields THEN 1000 * total_fields
                 ELSE 1200 * filled_fields
            d == 10 * total_fields * quality.confidence - x
        IN  /\ quality.confidence \in 0..100
            /\ 2 * (IF d < 0 THEN -d ELSE d) <= 10 * total_fields

\* 3 of 7: reported 0.43 and 0.51, while 1.2 * 0.43 rounds to 0.52
C6_Witness ==
    /\ Assessed
    /\ filled_fields = 3
    /\ total_fields = 7
    /\ quality.completeness = 43
    /\ quality.confidence = 51

\* C7: the recommendation is one of the three messages, the low-quality one
\* below 0.5, the fill-missing one from 0.5 up to 0.8, the quality-good one from
\* 0.8 on, read on the completeness reported in the same assessment.
C7_TierMatchesCompleteness ==
    Assessed =>
        quality.recommendation =
            (IF quality.completeness < 50 THEN RecLowQuality
             ELSE IF quality.completeness < 80 THEN RecFillMissing
             ELSE RecQualityGood)

\* a completeness of exactly 0.5 got the fill-missing message
C7_Witness ==
    /\ Assessed
    /\ quality.completeness = 50
    /\ quality.recommendation = RecFillMissing

\* the entry of missing_fields for names, a non-empty list of sub-field names
BundleOf(names) ==
    LET Rest(i) == IF i <= Len(names) THEN ", " \o names[i] ELSE ""
    IN  "products(" \o names[1] \o Rest(2) \o Rest(3) \o Rest(4) \o ")"

\* C8: missingFields lists the empty header fields in the order customer,
\* poNumber, totalAmount, then at most one product entry, always last:
\* "products" without a line item, "products(...)" naming the empty sub-fields
\* of the first line item in the order name, quantity, unitPrice, amount; the
\* later line items never change the assessment.
C8_MissingFieldsOrder ==
    Assessed =>
        LET If(b, x) == IF b THEN <<x>> ELSE <<>>
            headers  == If(result.customer = "", "customer")
                        \o If(result.poNumber = "", "poNumber")
                        \o If(result.totalAmount = "", "totalAmount")
            first    == result.products[1]
            names    == If(first.name = "", "name")
                        \o If(first.quantity = "", "quantity")
                        \o If(first.unitPrice = "", "unitPrice")
                        \o If(first.amount = "", "amount")
            entry    == IF result.products = <<>> THEN <<"products">>
                        ELSE IF names = <<>> THEN <<>>
                        ELSE <<BundleOf(names)>>
        IN  /\ quality.missing_fields = headers \o entry
            /\ Len(result.products) > 1 =>
                  quality = analyze_extraction_quality(
                                [result EXCEPT !.products = <<result.products[1]>>])

\* two line items, the second one empty, and only the first one reported
C8_Witness ==
    /\ Assessed
    /\ Len(result.products) = 2
    /\ result.products[2].name = ""
    /\ quality.missing_fields = <<"customer", "totalAmount", "products(quantity, amount)">>

\* C9: with the verdict ("unknown", 0.0) and nothing found by the generic
\* extractor, the returned record has empty header fields and one sentinel, and
\* its assessment takes the no-product branch: 4 fields, all 4 missing,
\* completeness 0.0, confidence 0.0, the low-quality message.
C9_BlankTextScoresZero ==
    (/\ Assessed
     /\ verdict = <<"unknown", 0>>
     /\ called = "generic"
     /\ raw = [customer |-> "", poNumber |-> "", totalAmount |-> "",
               products |-> <<>>]) =>
        /\ result = [customer |-> "", poNumber |-> "", totalAmount |-> "",
                     products |-> <<SentinelProduct>>]
        /\ total_fields = 4
        /\ filled_fields = 0
        /\ quality.completeness = 0
        /\ quality.confidence = 0
        /\ quality.recommendation = RecLowQuality

\* C10: completeness 1.0 (7 of 7), confidence 1.0, no missing field and the
\* quality-good message, if and only if customer, poNumber, totalAmount and the
\* four sub-fields of the first line item are all non-empty; and cleaning turns
\* the totalAmount "$500.00" into "500.00".
C10_PerfectIffAllFilled ==
    /\ Assessed =>
          ((/\ quality.completeness = 100
            /\ quality.confidence = 100
            /\ quality.missing_fields = <<>>
            /\ quality.recommendation = RecQualityGood)
           <=>
           (/\ EmptyHeaders(result) = 0
            /\ result.products # <<>>
            /\ EmptySubFields(result) = 0))
    /\ (Assessed /\ quality.completeness = 100) =>
          (total_fields = 7 /\ filled_fields = 7)
    /\ (Validated /\ raw.totalAmount = "$500.00") => result.totalAmount = "500.00"

\* the record of the scenario, extracted, cleaned and assessed
C10_Witness ==
    /\ Assessed
    /\ Dispatched
    /\ raw.customer = "Acme Corp"
    /\ raw.poNumber = "PO-100"
    /\ raw.totalAmount = "$500.00"
    /\ Len(raw.products) = 1
    /\ result.totalAmount = "500.00"
    /\ quality.completeness = 100
    /\ quality.confidence = 100
    /\ quality.recommendation = RecQualityGood

\* C11: format_candidates has exactly the keys format1, format2, format3 and
\* unknown; the key of the classifier's verdict holds its confidence and each
\* of the other three holds 0.0.
C11_FourFormatCandidates ==
    pc = "stats" =>
        /\ DOMAIN stats.format_candidates = {"format1", "format2", "format3", "unknown"}
        /\ stats.format_candidates[verdict[1]] = verdict[2]
        /\ \A f \in {"format1", "format2", "format3", "unknown"} \ {verdict[1]} :
              stats.format_candidates[f] = 0

\* the verdict (format2, 0.41) is the only non-zero candidate
C11_Witness ==
    /\ pc = "stats"
    /\ verdict = <<"format2", 41>>
    /\ stats.format_candidates["format2"] = 41
    /\ stats.format_candidates["unknown"] = 0

\* s is an initial part of t
IsPrefix(s, t) == Len(s) <= Len(t) /\ SubSeq(t, 1, Len(s)) = s

\* C13: extract_po_data classifies, then calls exactly one extractor, then
\* validates, then returns; the record it returns has passed validation (no
\* unit or currency marker is left) and has at least one line item.
C13_FixedStepOrder ==
    /\ \E e \in {"extract_format1_data", "extract_format2_data",
                 "extract_format3_data", "extract_generic_data"} :
          IsPrefix(steps, <<"identify_po_format", e, "validate_and_clean_result">>)
    /\ pc \in {"returned", "assessed", "stats"} /\ Dispatched =>
          /\ Len(steps) = 3
          /\ Len(result.products) >= 1
          /\ ~HasToken(result.totalAmount, {"$", "USD"})
          /\ \A i \in 1..Len(result.products) :
                /\ ~HasToken(result.products[i].quantity, {"kg", "KG", "mt", "MT"})
                /\ ~HasToken(result.products[i].unitPrice, {"$", "USD"})
                /\ ~HasToken(result.products[i].amount, {"$", "USD"})

\* the generic extractor found no line item; the call returned after its three steps
C13_Witness ==
    /\ pc = "returned"
    /\ steps = <<"identify_po_format", "extract_generic_data",
                 "validate_and_clean_result">>
    /\ raw.products = <<>>
    /\ Len(result.products) = 1

\* C19: a quantity without kg, KG, mt or MT, and a unitPrice, amount or
\* totalAmount without "$" or "USD", is left as it was; customer, poNumber and
\* the names are never modified.
C19_UnmarkedFieldsUntouched ==
    pc = "cleaned" =>
        /\ ~HasToken(raw.products[1].quantity, {"kg", "KG", "mt", "MT"}) =>
              result.products[1].quantity = raw.products[1].quantity
        /\ ~HasToken(raw.products[1].unitPrice, {"$", "USD"}) =>
              result.products[1].unitPrice = raw.products[1].unitPrice
        /\ ~HasToken(raw.products[1].amount, {"$", "USD"}) =>
              result.products[1].amount = raw.products[1].amount
        /\ ~HasToken(raw.totalAmount, {"$", "USD"}) =>
              result.totalAmount = raw.totalAmount
        /\ result.customer = raw.customer
        /\ result.poNumber = raw.poNumber
        /\ result.products[1].name = raw.products[1].name

\* "10 Kg" holds no unit token as the code spells them: it stays
C19_Witness ==
    /\ pc = "cleaned"
    /\ raw.products[1].quantity = "10 Kg"
    /\ result.products[1].quantity = "10 Kg"
    /\ result.totalAmount = "10 Kg"

-----------------------------------------------------------------------------
(* Calls of extract_po_data, one after another and interleaved. *)

\* C12: two calls of extract_po_data on the same text return equal records,
\* whatever calls on other texts ran before or between them, given that the
\* classifier and the extractors answer the same for the same text.
C12_SameTextSameRecord ==
    \A x \in returns : \A y \in returns :
        (x.arg.kind = "str" /\ y.arg = x.arg) => y.record = x.record

\* a second call on a text is about to return what the first returned, with a
\* call on another text returned too
C12_Witness ==
    \E x \in returns : \E y \in returns : \E c \in CallIds :
        /\ x.arg.kind = "str" /\ y.arg.kind = "str"
        /\ x.arg.text # y.arg.text
        /\ x.record # y.record
        /\ calls[c].pc = "extracted"
        /\ calls[c].arg = x.arg
        /\ validate_and_clean_result(calls[c].result) = x.record

C20_ReturnsAsWhenAlone ==
    \A x \in returns :
        x.arg.kind = "str" =>
            LET t == x.arg.text
            IN  /\ t \in DOMAIN classifier
                /\ LET key == <<ExtractorName(Dispatch(classifier[t][1],
                                                       classifier[t][2])), t>>
                   IN  /\ key \in DOMAIN extractors
                       /\ x.record = validate_and_clean_result(extractors[key])

\* two calls on different texts are in progress together, holding different
\* records, after a call has returned
C20_Witness ==
    \E c \in CallIds : \E d \in CallIds :
        /\ calls[c].pc = "extracted" /\ calls[d].pc = "extracted"
        /\ calls[c].arg.kind = "str" /\ calls[d].arg.kind = "str"
        /\ calls[c].arg.text # calls[d].arg.text
        /\ calls[c].result # calls[d].result
        /\ \E x \in returns : x.arg.kind = "str"

-----------------------------------------------------------------------------
(* The background task. *)

\* C14: the task calls extract_po_data at most once, and only when its OCR
\* step left the row committed with status "completed" and the text that the
\* call is given; after an OCR step that left "failed", or no row, it is
\* never called.
C14_ExtractOnceAfterCommit ==
    /\ job.extract_calls <= 1
    /\ job.extract_calls = 1 => job.ocr_committed = "completed"
    /\ job.pc = "extracted" =>
          /\ JobRow.status = "completed"
          /\ JobRow.raw_text = job.ocr_text
          /\ JobRow.processed_data.text_content = job.ocr_text

\* the task has made its one call on the committed text of the document
C14_Witness ==
    /\ job.pc = "extracted"
    /\ job.extract_calls = 1
    /\ JobRow.status = "completed"
    /\ JobRow.raw_text = "PO-100 Acme Corp"
    /\ job.extracted.customer = "Acme Corp"

\* C15: when the OCR step completed and nothing raised, the task ends with the
\* extracted record and its stats in processed_data and the status
\* "completed", whatever the completeness of the record.
C15_LowQualityIsSaved ==
    (job.pc \in {"closing", "done"} /\ job.extract_calls = 1 /\ job.error = "") =>
        /\ JobRow.status = "completed"
        /\ {"data", "stats"} \subseteq JobRow.processed_data.keys
        /\ JobRow.processed_data.data = job.extracted
        /\ JobRow.processed_data.stats.quality_assessment
              = analyze_extraction_quality(job.extracted)

\* a record of completeness below 0.5 is saved with status "completed"
C15_Witness ==
    /\ job.pc = "done"
    /\ JobRow.status = "completed"
    /\ "data" \in JobRow.processed_data.keys
    /\ JobRow.processed_data.data = job.extracted
    /\ JobRow.processed_data.stats.quality_assessment.completeness < 50
    /\ JobRow.processed_data.stats.quality_assessment.recommendation = RecLowQuality

-----------------------------------------------------------------------------
(* register_po. *)

\* the value that a defensive conversion stores for a numeric string
StoredOrZero(s) == IF IsFloatLiteral(s) THEN Hundredths(s) ELSE 0

\* C18 as stated: a valid request whose numeric strings are empty or do not
\* parse never fails; with the commits succeeding it is answered with
\* success, each such value is stored as 0, and the purchase order, one item
\* per product and the Input row are persisted.
C18_DefensiveParsing ==
    (reg.pc = "done" /\ ValidRequest(reg.po_data) /\ ~reg.db_faulty
       /\ reg.po_data.po_acquisition_date # "not_a_string") =>
        /\ reg.response = HttpOk
        /\ Len(tables.orders) = 1
        /\ tables.orders[1].total_amount
             = StoredOrZero(IF "totalAmount" \in reg.po_data.keys
                            THEN reg.po_data.totalAmount ELSE "0")
        /\ Len(tables.items) = Len(reg.po_data.products)
        /\ \A i \in 1..Len(tables.items) :
              /\ tables.items[i].quantity
                   = StoredOrZero(reg.po_data.products[i].quantity) \div 100
              /\ tables.items[i].unit_price
                   = StoredOrZero(reg.po_data.products[i].unitPrice)
              /\ tables.items[i].subtotal
                   = StoredOrZero(reg.po_data.products[i].amount)
        /\ Len(tables.inputs) = 1

-----------------------------------------------------------------------------
(* The routes of an OCR job, against its background task. *)

\* C21: an answer "success" of GET /api/ocr/extract for the job carries the
\* record extracted for the job, with at least one product, wherever the
\* request falls among the steps of the task.
C21_SuccessReturnsExtracted ==
    (answer.route = "extract" /\ answer.code = HttpOk) =>
        /\ answer.has_data
        /\ answer.data = job.extracted
        /\ Len(answer.data.products) >= 1

\* C22: every step that changes the stored status of the job changes it from
\* "processing" to "completed" or to "failed"; a status "completed" or
\* "failed" is never changed again.
C22_StatusChangesOnce ==
    [][JobRow.status' # JobRow.status =>
          /\ JobRow.status = "processing"
          /\ JobRow.status' \in {"completed", "failed"}]_vars

\* C23: when the row of the job exists and the commits succeed, the task
\* brings the stored status to "completed" or "failed" on every path.
C23_LeavesProcessing ==
    (JobRow # NoRow /\ ~job.db_faulty) => <>(JobRow.status \in {"completed", "failed"})

\* a task whose temp directory could not be made has ended, the row failed
C23_Witness ==
    /\ job.pc = "done"
    /\ ~job.db_faulty
    /\ job.error = "mkdir failed"
    /\ JobRow.status = "failed"

\* C24: the row of a job is never "completed" with a notice of failure as its
\* raw_text: a document whose text could not be read (an image without
\* Tesseract, an unsupported extension, a PDF that pdfminer cannot read) ends
\* "failed".
C24_NoTextMeansFailed ==
    JobRow.status = "completed" =>
        JobRow.raw_text \notin {PdfErrorNotice, ImageNotice, UnsupportedNotice}

\* C25: whenever the stored status of the job is "failed", its processed_data
\* is an object with the key "error": the two are written by one commit.
C25_FailedCarriesError ==
    JobRow.status = "failed" => "error" \in JobRow.processed_data.keys

\* an image that Tesseract could not read: "{}" and the message were stored
\* as an object with the key "error"
C25_Witness ==
    /\ job.ext = "image"
    /\ JobRow.status = "failed"
    /\ JobRow.processed_data.keys = {"error"}
    /\ JobRow.processed_data.error = "image error"

\* process_document_from_bytes has returned (it has not raised out of the
\* constructor of TempFileManager)
ReturnedFromBytes ==
    \/ job.pc \in {"returned", "read", "extracted"}
    \/ (job.pc \in {"raised", "closing", "done"} /\ job.error # "mkdir failed")

-----------------------------------------------------------------------------
(* upload_file. *)

\* the filenames with an extension among pdf, png, jpg, jpeg in any case
AcceptedNames == {"po.pdf", "po.PDF", "po.Jpg", "po.png", "a.b.jpeg", ".pdf"}

\* the upload is one that the claim calls rejected
Rejected == upload.filename \notin AcceptedNames \/ upload.size > MAX_FILE_SIZE

\* C27: a rejected upload leaves no OCR row and no scheduled task; an upload
\* that is accepted (and whose read and commit succeed) leaves exactly one row,
\* "processing" with empty raw_text and processed_data "{}", and exactly one
\* task, scheduled for the id of that row; no task is ever scheduled without
\* its row.
C27_UploadCreatesOneJob ==
    /\ Len(tasks) <= 1
    /\ tasks # <<>> => store[tasks[1]] # NoRow
    /\ upload.pc = "done" =>
          IF Rejected
          THEN /\ upload.code \in {HttpBadRequest, HttpUnprocessable,
                                    HttpPayloadTooLarge, HttpServerError}
               /\ \A id \in OcrIds : store[id] = NoRow
               /\ tasks = <<>>
          ELSE IF ~upload.read_fails /\ ~upload.db_faulty
          THEN /\ upload.code = HttpOk
               /\ store[upload.ocr_id].status = "processing"
               /\ store[upload.ocr_id].raw_text = ""
               /\ store[upload.ocr_id].processed_data.keys = {}
               /\ tasks = <<upload.ocr_id>>
          ELSE upload.code = HttpOk => tasks = <<upload.ocr_id>>

\* an upload named with an upper-case extension was accepted
C27_Witness ==
    /\ upload.pc = "done"
    /\ upload.filename = "po.PDF"
    /\ upload.size = MAX_FILE_SIZE
    /\ upload.code = HttpOk
    /\ store[1].status = "processing"
    /\ tasks = <<1>>

-----------------------------------------------------------------------------
(* check_ocr_status. *)

\* C28: GET /api/ocr/status answers 404 for an integer id without a row,
\* 400 for an id that is not an integer, and the stored status, with 200,
\* only for an existing row.
C28_StatusRouteCodes ==
    answer.route = "status" =>
        IF answer.ocr_id = "abc" THEN answer.code = HttpBadRequest
        ELSE IF answer.ocr_id = "2" \/ JobRow = NoRow
        THEN answer.code = HttpNotFound
        ELSE /\ answer.code = HttpOk
             /\ answer.status \in {"processing", "completed", "failed"}

-----------------------------------------------------------------------------
(* register_po: what a request leaves behind. *)

\* C29: a registration that succeeds leaves its purchase order, one item per
\* product and one Input row; a registration that fails, at whatever step,
\* leaves no row at all.
C29_AllOrNothing ==
    reg.pc = "done" =>
        IF reg.response = HttpOk
        THEN /\ Len(tables.orders) = 1
             /\ Len(tables.items) = Len(reg.po_data.products)
             /\ Len(tables.inputs) = 1
        ELSE tables = NoTables

====
